---- MODULE Spec2Model ----
(***************************************************************************)
(* Layer query, symbol resolution, grid generation and selection handling *)
(* of the data-populator Sketch plugin (src/sketch/src/sketch/layers.js). *)
(*                                                                         *)
(* The document is a sequence of layer records; a layer is identified by  *)
(* its index.  A layer's children are the layers naming it as parent, in  *)
(* index order (addLayers appends, and new layers get the next index).    *)
(* Every operation of layers.js is one action; `op` records the call and  *)
(* its arguments, `result` what it returned and `calls` the host calls it *)
(* made, in order.                                                         *)
(***************************************************************************)
EXTENDS Integers, Sequences, FiniteSets, TLC

VARIABLES doc, selection, symbols, libraries, imported, op, result, calls

vars == <<doc, selection, symbols, libraries, imported, op, result, calls>>

(***************************************************************************)
(* Bounds of the model.                                                    *)
(***************************************************************************)
MaxLayers == 3
MaxRoots == 2
MaxExcluded == 1

(***************************************************************************)
(* Optional values: null / undefined is None, a present value v is {v}.    *)
(***************************************************************************)
None == {}
Some(v) == {v}
Val(o) == CHOOSE v \in o : TRUE

\* the sequences over S of length up to n
SeqsUpTo(S, n) == UNION {[1..k -> S] : k \in 0..n}

Range(s) == {s[i] : i \in 1..Len(s)}

(***************************************************************************)
(* Layer classes (layers.js:11-19 and the class names of lines 59, 67).    *)
(***************************************************************************)
PAGE == "MSPage"
ARTBOARD == "MSArtboardGroup"
GROUP == "MSLayerGroup"
TEXT == "MSTextLayer"
SHAPE == "MSShapeGroup"
BITMAP == "MSBitmapLayer"
SYMBOL == "MSSymbolInstance"
SYMBOL_MASTER == "MSSymbolMaster"
ANY == "null"

PrimitiveShapes ==
  {"MSRectangleShape", "MSTriangleShape", "MSOvalShape", "MSStarShape", "MSPolygonShape"}

ClassNames ==
  {PAGE, ARTBOARD, GROUP, TEXT, SHAPE, BITMAP, SYMBOL, SYMBOL_MASTER} \cup PrimitiveShapes

\* the values the exported constants give the `type` parameter
TypeArgs == {PAGE, ARTBOARD, GROUP, TEXT, SHAPE, BITMAP, SYMBOL, SYMBOL_MASTER, ANY}

\* the classes whose layers hold sub-layers in the host document model
Containers == {PAGE, ARTBOARD, GROUP, SYMBOL_MASTER, SHAPE}

(***************************************************************************)
(* The document tree.                                                      *)
(***************************************************************************)
LayerIds == 1..Len(doc)

\* rootLayer.layers(): the immediate children, in order
RECURSIVE SubLayersFrom(_, _)
SubLayersFrom(root, i) ==
  IF i > Len(doc) THEN <<>>
  ELSE (IF doc[i].parent = root THEN <<i>> ELSE <<>>) \o SubLayersFrom(root, i + 1)

SubLayers(root) == SubLayersFrom(root, 1)

\* rootLayer.children(): every descendant and the layer itself
RECURSIVE Children(_)
RECURSIVE ChildrenOfAll(_)
ChildrenOfAll(ls) ==
  IF ls = <<>> THEN <<>> ELSE Children(Head(ls)) \o ChildrenOfAll(Tail(ls))

Children(root) == ChildrenOfAll(SubLayers(root)) \o <<root>>

\* the layers that are part of the document tree: attached, up to a page
RECURSIVE InTree(_, _)
InTree(d, l) ==
  IF d[l].parent = 0 THEN d[l].className = PAGE ELSE InTree(d, d[l].parent)

(***************************************************************************)
(* Layer Predicate Matcher: findLayersInLayer, findLayersInLayers.         *)
(***************************************************************************)
\* JavaScript truthiness of the `name` argument: undefined and '' are falsy
Truthy(name) == name # None /\ Val(name) # <<>>

\* NSPredicate's `like`: ? matches one character, * any run of characters
RECURSIVE Like(_, _)
Like(s, p) ==
  IF p = <<>> THEN s = <<>>
  ELSE IF Head(p) = "*"
       THEN Like(s, Tail(p)) \/ (s # <<>> /\ Like(Tail(s), p))
       ELSE s # <<>> /\ (Head(p) = "?" \/ Head(p) = Head(s)) /\ Like(Tail(s), Tail(p))

NameNotNull == "(name != NULL)"
NameEquals == "(name == %@)"
NameLike == "(name like %@)"
ClassIsShape == "(className == <primitive shape> OR className == MSShapeGroup)"
ClassEquals == "(className == %@)"
ClassIsAny == "(className == <group, shape group, artboard, text or primitive shape>)"
NotSelfIn == "NOT (SELF IN %@)"

HasPlaceholder(rule) == rule \in {NameEquals, NameLike, ClassEquals, NotSelfIn}

\* FormatRules without the rule that an omitted type adds
FormatRulesNoDefaultKind(name, exactMatch, type, layersToExclude) ==
  <<NameNotNull>>
  \o (IF Truthy(name) THEN (IF exactMatch THEN <<NameEquals>> ELSE <<NameLike>>) ELSE <<>>)
  \o (IF type # ANY
      THEN (IF type = SHAPE THEN <<ClassIsShape>> ELSE <<ClassEquals>>)
      ELSE <<>>)
  \o (IF layersToExclude # None THEN <<NotSelfIn>> ELSE <<>>)

\* the rules pushed onto formatRules, in order
FormatRules(name, exactMatch, type, layersToExclude) ==
  <<NameNotNull>>
  \o (IF Truthy(name) THEN (IF exactMatch THEN <<NameEquals>> ELSE <<NameLike>>) ELSE <<>>)
  \o (IF type # ANY
      THEN (IF type = SHAPE THEN <<ClassIsShape>> ELSE <<ClassEquals>>)
      ELSE <<ClassIsAny>>)
  \o (IF layersToExclude # None THEN <<NotSelfIn>> ELSE <<>>)

\* the values pushed onto args, in order; each is tagged with what it is
PredicateArgs(name, type, layersToExclude) ==
  (IF Truthy(name) THEN <<[is |-> "name", v |-> Val(name)]>> ELSE <<>>)
  \o (IF type # ANY THEN <<[is |-> "class", v |-> type]>> ELSE <<>>)
  \o (IF layersToExclude # None THEN <<[is |-> "layers", v |-> Val(layersToExclude)]>> ELSE <<>>)

\* predicateWithFormat_argumentArray: the k-th %@ of the format takes the k-th argument
PlaceholdersUpTo(rules, k) == Cardinality({i \in 1..k : HasPlaceholder(rules[i])})

BoundArg(rules, args, k) == args[PlaceholdersUpTo(rules, k)]

\* one rule on one layer: "true", "false", or "raise" where the operand has the wrong
\* type for the operator; `inString` is what the host makes of `SELF IN <a string>`
\* for a layer: NSPredicate either raises or finds the layer not to be in the string
EvalRule(rules, args, k, l, inString) ==
  LET rule == rules[k]
      B(b) == IF b THEN "true" ELSE "false"
  IN  CASE rule = NameNotNull -> B(doc[l].name # None)
        [] rule = ClassIsShape -> B(doc[l].className \in PrimitiveShapes \cup {SHAPE})
        [] rule = ClassIsAny ->
             B(doc[l].className \in {GROUP, SHAPE, ARTBOARD, TEXT} \cup PrimitiveShapes)
        [] rule = NameEquals ->
             LET a == BoundArg(rules, args, k)
             IN  B(a.is = "name" /\ Val(doc[l].name) = a.v)
        [] rule = NameLike ->
             LET a == BoundArg(rules, args, k)
             IN  IF a.is = "name" THEN B(Like(Val(doc[l].name), a.v)) ELSE "raise"
        [] rule = ClassEquals ->
             LET a == BoundArg(rules, args, k)
             IN  B(a.is = "class" /\ doc[l].className = a.v)
        [] rule = NotSelfIn ->
             LET a == BoundArg(rules, args, k)
             IN  IF a.is = "layers" THEN B(l \notin a.v)
                 ELSE IF inString = "raise" THEN "raise" ELSE "true"

\* the rules joined by AND, evaluated left to right until one is false
RECURSIVE EvalFrom(_, _, _, _, _)
EvalFrom(rules, args, k, l, inString) ==
  IF k > Len(rules) THEN "true"
  ELSE LET r == EvalRule(rules, args, k, l, inString)
       IN  IF r = "true" THEN EvalFrom(rules, args, k + 1, l, inString) ELSE r

\* filteredArrayUsingPredicate: the layers whose verdict is "true", in order
RECURSIVE Filtered(_, _)
Filtered(layers, verdicts) ==
  IF layers = <<>> THEN <<>>
  ELSE (IF Head(verdicts) = "true" THEN <<Head(layers)>> ELSE <<>>)
       \o Filtered(Tail(layers), Tail(verdicts))

Returned(v) == [status |-> "returned", value |-> v]
ReturnedUndefined == [status |-> "undefined"]
Raised == [status |-> "raised"]

FindLayersInLayer(name, exactMatch, type, rootLayer, subLayersOnly, layersToExclude, inString) ==
  LET rules == FormatRules(name, exactMatch, type, layersToExclude)
      args == PredicateArgs(name, type, layersToExclude)
      layers == IF subLayersOnly THEN SubLayers(rootLayer) ELSE Children(rootLayer)
      verdicts == [i \in 1..Len(layers) |-> EvalFrom(rules, args, 1, layers[i], inString)]
  IN  IF \E i \in 1..Len(layers) : verdicts[i] = "raise" THEN Raised
      ELSE Returned(Filtered(layers, verdicts))

RECURSIVE FindLayersInLayers(_, _, _, _, _, _, _)
FindLayersInLayers(name, exactMatch, type, rootLayers, subLayersOnly, layersToExclude, inString) ==
  IF rootLayers = <<>> THEN Returned(<<>>)
  ELSE LET first == FindLayersInLayer(name, exactMatch, type, Head(rootLayers),
                                      subLayersOnly, layersToExclude, inString)
           rest == FindLayersInLayers(name, exactMatch, type, Tail(rootLayers),
                                      subLayersOnly, layersToExclude, inString)
       IN  IF first.status = "raised" \/ rest.status = "raised" THEN Raised
           ELSE Returned(first.value \o rest.value)

NoOp == [name |-> "none"]

NameArgs == {None, Some(<<"a">>), Some(<<"a", "*">>)}

FindArgs(rootSet) ==
  [name : NameArgs, exactMatch : BOOLEAN, type : TypeArgs, root : rootSet,
   subLayersOnly : BOOLEAN,
   layersToExclude :
     {None} \cup {Some(S) : S \in {T \in SUBSET LayerIds : Cardinality(T) <= MaxExcluded}}]

FindLayersInLayerCall ==
  /\ op = NoOp
  /\ \E a \in FindArgs(LayerIds), inString \in {"raise", "false"} :
       /\ op' = [name |-> "findLayersInLayer", args |-> a]
       /\ result' = FindLayersInLayer(a.name, a.exactMatch, a.type, a.root,
                                      a.subLayersOnly, a.layersToExclude, inString)
  /\ UNCHANGED <<doc, selection, symbols, libraries, imported, calls>>

FindLayersInLayersCall ==
  /\ op = NoOp
  /\ \E a \in FindArgs(SeqsUpTo(LayerIds, MaxRoots)), inString \in {"raise", "false"} :
       /\ op' = [name |-> "findLayersInLayers", args |-> a]
       /\ result' = FindLayersInLayers(a.name, a.exactMatch, a.type, a.root,
                                       a.subLayersOnly, a.layersToExclude, inString)
  /\ UNCHANGED <<doc, selection, symbols, libraries, imported, calls>>

\* the classes and names the layers of a find document run through, in step
ClassOrder ==
  <<PAGE, ARTBOARD, GROUP, SHAPE, SYMBOL_MASTER, TEXT, BITMAP, SYMBOL,
    "MSRectangleShape", "MSTriangleShape", "MSOvalShape", "MSStarShape", "MSPolygonShape">>

NameOrder == <<None, Some(<<"a">>), Some(<<"a", "b">>)>>

Cyclic(order, k) == order[(k % Len(order)) + 1]

\* where a layer of the class may be put in the document d: in a container, or
\* nowhere (0); and a page nowhere else
ParentsIn(d, class) ==
  IF class = PAGE THEN {0} ELSE {0} \cup {q \in 1..Len(d) : d[q].className \in Containers}

\* documents of k layers at the origin: layer l has the class and the name l steps
\* after the starting class c and name n, so that over the documents every layer
\* takes every class and every name
RECURSIVE FindDocsOf(_, _, _)
FindDocsOf(c, n, k) ==
  IF k = 0 THEN {<<>>}
  ELSE UNION {{Append(d, [name |-> Cyclic(NameOrder, n + k),
                          className |-> Cyclic(ClassOrder, c + k),
                          parent |-> q, x |-> 0, y |-> 0, width |-> 1, height |-> 1]) :
                 q \in ParentsIn(d, Cyclic(ClassOrder, c + k))} :
              d \in FindDocsOf(c, n, k - 1)}

InitFind ==
  /\ \E c \in 1..Len(ClassOrder), n \in 1..Len(NameOrder) : doc \in FindDocsOf(c, n, MaxLayers)
  /\ selection = <<>>
  /\ symbols = <<>>
  /\ libraries = <<>>
  /\ imported = {}
  /\ op = NoOp
  /\ result = Returned(<<>>)
  /\ calls = <<>>

NextFind == FindLayersInLayerCall \/ FindLayersInLayersCall

SpecFind == InitFind /\ [][NextFind]_vars

(***************************************************************************)
(* Symbol Resolver: findSymbolMasterWithName, findSymbolMasterWithId.      *)
(*                                                                         *)
(* `symbols` is getSymbols() of the selected document, `libraries` is      *)
(* getLibraries(); a library is [valid, references], its references being  *)
(* what getImportableSymbolReferencesForDocument returns.  `imported` is   *)
(* the set of <<library, reference>> positions import() was called on.     *)
(***************************************************************************)
MaxSymbols == 1
MaxLibraries == 2
MaxReferences == 1

SymbolNames == {"a", "b"}
SymbolIds == {"id1", "id2"}

\* the symbols there are: two share a name, two share an id
SymbolKeys ==
  {[name |-> "a", id |-> "id1"], [name |-> "a", id |-> "id2"], [name |-> "b", id |-> "id2"]}

\* what the resolver hands back
LocalMaster(k) == [from |-> "document", index |-> k]
ImportedMaster(i, k) == [from |-> "library", library |-> i, reference |-> k]
Null == [from |-> "null"]
Undefined == [from |-> "undefined"]

Matches(key, by, criterion) == IF by = "name" THEN key.name = criterion ELSE key.id = criterion

\* array.filter(...)[0]: the position of the first match, 0 where there is none
FirstMatch(keys, by, criterion) ==
  LET hits == {k \in 1..Len(keys) : Matches(keys[k], by, criterion)}
  IN  IF hits = {} THEN 0 ELSE CHOOSE k \in hits : \A j \in hits : k <= j

\* the loop over the libraries from library i on; st is [master, calls, imported, returned]
RECURSIVE LibraryLoop(_, _, _, _)
LibraryLoop(i, by, criterion, st) ==
  IF i > Len(libraries) THEN st
  ELSE IF ~libraries[i].valid THEN [st EXCEPT !.returned = TRUE]
  ELSE LET k == FirstMatch(libraries[i].references, by, criterion)
           queried == Append(st.calls, <<"getImportableSymbolReferencesForDocument", i>>)
       IN  IF k = 0
           THEN LibraryLoop(i + 1, by, criterion, [st EXCEPT !.calls = queried])
           ELSE LibraryLoop(i + 1, by, criterion,
                            [st EXCEPT !.master = ImportedMaster(i, k),
                                       !.calls = Append(queried, <<"import", i, k>>),
                                       !.imported = @ \cup {<<i, k>>}])

\* FindSymbolMaster going through the libraries although a local master matched
FindSymbolMasterLibrariesToo(by, criterion) ==
  LET local == FirstMatch(symbols, by, criterion)
      start == [master |-> IF local = 0 THEN Undefined ELSE LocalMaster(local),
                calls |-> <<>>, imported |-> imported, returned |-> FALSE]
      end == LibraryLoop(1, by, criterion, start)
  IN  [value |-> IF end.returned THEN Undefined
                 ELSE IF end.master = Undefined THEN Null ELSE end.master,
       calls |-> end.calls, imported |-> end.imported]

FindSymbolMaster(by, criterion) ==
  LET local == FirstMatch(symbols, by, criterion)
      start == [master |-> IF local = 0 THEN Undefined ELSE LocalMaster(local),
                calls |-> <<>>, imported |-> imported, returned |-> FALSE]
      end == IF local = 0 THEN LibraryLoop(1, by, criterion, start) ELSE start
  IN  [value |-> IF end.returned THEN Undefined
                 ELSE IF end.master = Undefined THEN Null ELSE end.master,
       calls |-> end.calls, imported |-> end.imported]

FindSymbolMasterWithName ==
  /\ op = NoOp
  /\ \E name \in SymbolNames :
       LET r == FindSymbolMaster("name", name)
       IN  /\ op' = [name |-> "findSymbolMasterWithName", by |-> "name", criterion |-> name]
           /\ result' = Returned(r.value)
           /\ calls' = r.calls
           /\ imported' = r.imported
  /\ UNCHANGED <<doc, selection, symbols, libraries>>

FindSymbolMasterWithId ==
  /\ op = NoOp
  /\ \E id \in SymbolIds :
       LET r == FindSymbolMaster("id", id)
       IN  /\ op' = [name |-> "findSymbolMasterWithId", by |-> "id", criterion |-> id]
           /\ result' = Returned(r.value)
           /\ calls' = r.calls
           /\ imported' = r.imported
  /\ UNCHANGED <<doc, selection, symbols, libraries>>

InitSymbols ==
  /\ doc = <<>>
  /\ selection = <<>>
  /\ symbols \in SeqsUpTo(SymbolKeys, MaxSymbols)
  /\ libraries \in SeqsUpTo([valid : BOOLEAN, references : SeqsUpTo(SymbolKeys, MaxReferences)],
                            MaxLibraries)
  /\ imported = {}
  /\ op = NoOp
  /\ result = Returned(Null)
  /\ calls = <<>>

NextSymbols == FindSymbolMasterWithName \/ FindSymbolMasterWithId

SpecSymbols == InitSymbols /\ [][NextSymbols]_vars

(***************************************************************************)
(* Grid Generator: createGrid.                                             *)
(***************************************************************************)
MaxCoord == 1
MaxSize == 2
MaxCount == 2
MaxMargin == 1

\* JavaScript `!v` of a number or undefined
Falsy(v) == v = None \/ Val(v) = 0

\* GridValidationMessage taking a margin of 0 for a missing one
GridValidationMessageZeroMargin(opt) ==
  IF Falsy(opt.rowsCount) \/ Val(opt.rowsCount) < 0
    THEN Some("Number of grid rows must be at least 1.")
  ELSE IF Falsy(opt.rowsMargin)
    THEN Some("Grid row margin is invalid.")
  ELSE IF Falsy(opt.columnsCount) \/ Val(opt.columnsCount) < 0
    THEN Some("Number of grid columns must be at least 1.")
  ELSE IF Falsy(opt.columnsMargin)
    THEN Some("Grid column margin is invalid.")
  ELSE None

\* the four checks of the options, in order: the message shown, None where all pass
GridValidationMessage(opt) ==
  IF Falsy(opt.rowsCount) \/ Val(opt.rowsCount) < 0
    THEN Some("Number of grid rows must be at least 1.")
  ELSE IF Falsy(opt.rowsMargin) /\ opt.rowsMargin # Some(0)
    THEN Some("Grid row margin is invalid.")
  ELSE IF Falsy(opt.columnsCount) \/ Val(opt.columnsCount) < 0
    THEN Some("Number of grid columns must be at least 1.")
  ELSE IF Falsy(opt.columnsMargin) /\ opt.columnsMargin # Some(0)
    THEN Some("Grid column margin is invalid.")
  ELSE None

\* ReplacesAnchor asking for a smaller x and a smaller y
ReplacesAnchorBoth(d, tempLayer, smallestX, smallestY) ==
  d[tempLayer].x < smallestX /\ d[tempLayer].y < smallestY

\* one step of the scan: whether tempLayer replaces the layer held so far
ReplacesAnchor(d, tempLayer, smallestX, smallestY) ==
  d[tempLayer].x < smallestX \/ d[tempLayer].y < smallestY

\* the scan for the first layer (most top left), from position i on
RECURSIVE AnchorScan(_, _, _, _)
AnchorScan(d, selectedLayers, i, st) ==
  IF i > Len(selectedLayers) THEN st.layer
  ELSE LET tempLayer == selectedLayers[i]
       IN  IF ReplacesAnchor(d, tempLayer, st.smallestX, st.smallestY)
           THEN AnchorScan(d, selectedLayers, i + 1,
                           [layer |-> tempLayer, smallestX |-> d[tempLayer].x,
                            smallestY |-> d[tempLayer].y])
           ELSE AnchorScan(d, selectedLayers, i + 1, st)

Anchor(d, selectedLayers) ==
  AnchorScan(d, selectedLayers, 1,
             [layer |-> selectedLayers[1], smallestX |-> d[selectedLayers[1]].x,
              smallestY |-> d[selectedLayers[1]].y])

\* layer.parentGroup(), parentArtboard(), parentPage(); 0 is "none"
ParentGroup(d, l) == d[l].parent

RECURSIVE AncestorOfClass(_, _, _)
AncestorOfClass(d, l, class) ==
  IF d[l].parent = 0 THEN 0
  ELSE IF d[d[l].parent].className = class THEN d[l].parent
  ELSE AncestorOfClass(d, d[l].parent, class)

LayerParent(d, layer) ==
  IF ParentGroup(d, layer) # 0 THEN ParentGroup(d, layer)
  ELSE IF AncestorOfClass(d, layer, ARTBOARD) # 0 THEN AncestorOfClass(d, layer, ARTBOARD)
  ELSE AncestorOfClass(d, layer, PAGE)

\* RemoveSelected removing the first selected layer alone
RemoveSelectedFirstOnly(st, selectedLayers, i) ==
  [st EXCEPT !.doc[selectedLayers[1]].parent = 0,
             !.calls = Append(@, <<"removeFromParent", selectedLayers[1]>>)]

\* selectedLayers.forEach(removeFromParent), from position i on
RECURSIVE RemoveSelected(_, _, _)
RemoveSelected(st, selectedLayers, i) ==
  IF i > Len(selectedLayers) THEN st
  ELSE RemoveSelected([st EXCEPT !.doc[selectedLayers[i]].parent = 0,
                                 !.calls = Append(@, <<"removeFromParent", selectedLayers[i]>>)],
                      selectedLayers, i + 1)

\* Utils.copyLayer: a detached duplicate of the layer and of the layers below it,
\* appended to the document; the duplicate of the layer is layer Len(d) + 1
RECURSIVE IsWithin(_, _, _)
IsWithin(d, m, l) == m = l \/ (d[m].parent # 0 /\ IsWithin(d, d[m].parent, l))

CopyLayer(d, l) ==
  LET subtree == {m \in 1..Len(d) : IsWithin(d, m, l)}
      rank(m) == Cardinality({n \in subtree : n <= m})
  IN  d \o [k \in 1..Cardinality(subtree) |->
              LET m == CHOOSE n \in subtree : rank(n) = k
              IN  [d[m] EXCEPT !.parent = IF m = l THEN 0 ELSE Len(d) + rank(d[m].parent)]]

\* GridX leaving the margin out
GridXNoMargin(startX, j, layerWidth, columnsMargin) == startX + j * layerWidth

\* the position of the copy in row i, column j
GridX(startX, j, layerWidth, columnsMargin) == startX + j * (layerWidth + columnsMargin)
GridY(startY, i, layerHeight, rowsMargin) == startY + i * (layerHeight + rowsMargin)

\* the body of the inner loop: one copy, added to the parent and positioned
PlaceCopy(st, g, i, j) ==
  LET copy == Len(st.doc) + 1
      copied == CopyLayer(st.doc, g.layer)
      x == GridX(g.startX, j, g.layerWidth, g.columnsMargin)
      y == GridY(g.startY, i, g.layerHeight, g.rowsMargin)
  IN  [doc |-> [copied EXCEPT ![copy].parent = g.layerParent, ![copy].x = x, ![copy].y = y],
       calls |-> st.calls \o <<<<"copyLayer", g.layer, copy>>, <<"addLayers", g.layerParent, copy>>,
                               <<"setX", copy, x>>, <<"setY", copy, y>>>>,
       newSelectedLayers |-> Append(st.newSelectedLayers, copy)]

\* the columns loop of row i from column j on, and the rows loop from row i on
RECURSIVE Columns(_, _, _, _)
Columns(st, g, i, j) ==
  IF j < g.columnsCount THEN Columns(PlaceCopy(st, g, i, j), g, i, j + 1) ELSE st

RECURSIVE Rows(_, _, _)
Rows(st, g, i) ==
  IF i < g.rowsCount THEN Rows(Columns(st, g, i, 0), g, i + 1) ELSE st

\* createGrid: [doc, calls, result] after the call
CreateGrid(d, selectedLayers, opt) ==
  IF GridValidationMessage(opt) # None
  THEN [doc |-> d, calls |-> <<<<"showMessage", Val(GridValidationMessage(opt))>>>>,
        result |-> ReturnedUndefined]
  ELSE LET layer == Anchor(d, selectedLayers)
           removed == RemoveSelected([doc |-> d, calls |-> <<>>, newSelectedLayers |-> <<>>],
                                     selectedLayers, 1)
           g == [layer |-> layer,
                 layerWidth |-> d[layer].width, layerHeight |-> d[layer].height,
                 layerParent |-> LayerParent(d, layer),
                 startX |-> removed.doc[layer].x, startY |-> removed.doc[layer].y,
                 rowsCount |-> Val(opt.rowsCount), rowsMargin |-> Val(opt.rowsMargin),
                 columnsCount |-> Val(opt.columnsCount),
                 columnsMargin |-> Val(opt.columnsMargin)]
           done == Rows(removed, g, 0)
       IN  [doc |-> done.doc, calls |-> done.calls, result |-> Returned(done.newSelectedLayers)]

CountArgs == {None} \cup {Some(n) : n \in -1..MaxCount}
MarginArgs == {None} \cup {Some(n) : n \in 0..MaxMargin}
GridOptions ==
  [rowsCount : CountArgs, rowsMargin : MarginArgs,
   columnsCount : CountArgs, columnsMargin : MarginArgs]

\* what getSelectedLayers can hand over: distinct layers of the tree, pages apart
Selectable == {l \in LayerIds : doc[l].className # PAGE /\ InTree(doc, l)}
Distinct(s) == \A i, j \in 1..Len(s) : i # j => s[i] # s[j]
Selections == {s \in SeqsUpTo(Selectable, Cardinality(Selectable)) : Distinct(s)}

CreateGridCall ==
  /\ op = NoOp
  /\ \E selectedLayers \in Selections \ {<<>>}, opt \in GridOptions :
       LET r == CreateGrid(doc, selectedLayers, opt)
       IN  /\ op' = [name |-> "createGrid", selectedLayers |-> selectedLayers, opt |-> opt]
           /\ doc' = r.doc
           /\ calls' = r.calls
           /\ result' = r.result
  /\ UNCHANGED <<selection, symbols, libraries, imported>>

\* documents of k layers: a page, on it a group or a text layer, and text layers on
\* the page or in the group; named "a", placed within MaxCoord, up to MaxSize
RECURSIVE GridDocsOf(_)
GridDocsOf(k) ==
  IF k = 1
  THEN {<<[name |-> Some(<<"a">>), className |-> PAGE, parent |-> 0,
           x |-> 0, y |-> 0, width |-> 1, height |-> 1]>>}
  ELSE UNION {{Append(d, r) :
                 r \in [name : {Some(<<"a">>)},
                        className : IF k = 2 THEN {GROUP, TEXT} ELSE {TEXT},
                        parent : ParentsIn(d, TEXT) \ {0},
                        x : 0..MaxCoord, y : 0..MaxCoord,
                        width : 1..MaxSize, height : 1..MaxSize]} :
              d \in GridDocsOf(k - 1)}

InitGrid ==
  /\ doc \in GridDocsOf(MaxLayers)
  /\ selection = <<>>
  /\ symbols = <<>>
  /\ libraries = <<>>
  /\ imported = {}
  /\ op = NoOp
  /\ result = Returned(<<>>)
  /\ calls = <<>>

NextGrid == CreateGridCall

SpecGrid == InitGrid /\ [][NextGrid]_vars

(***************************************************************************)
(* Selection Manager: getSelectedLayers, selectLayers.                     *)
(*                                                                         *)
(* `selection` is document.selectedLayers(), the host's native selection,  *)
(* in the order the layers were selected.                                  *)
(***************************************************************************)
RECURSIVE Reverse(_)
Reverse(s) == IF s = <<>> THEN <<>> ELSE Append(Reverse(Tail(s)), Head(s))

RECURSIVE Without(_, _)
Without(s, l) ==
  IF s = <<>> THEN <<>>
  ELSE (IF Head(s) = l THEN <<>> ELSE <<Head(s)>>) \o Without(Tail(s), l)

\* layer.select_byExtendingSelection(selected, extend) of the host
SelectByExtendingSelection(sel, l, selected, extend) ==
  IF ~selected THEN Without(sel, l)
  ELSE IF ~extend THEN <<l>>
  ELSE IF l \in Range(sel) THEN sel
  ELSE Append(sel, l)

GetSelectedLayers(sel) == Reverse(sel)

\* layers.forEach(layer => layer.select_byExtendingSelection(selected, extend))
RECURSIVE SelectEach(_, _, _, _)
SelectEach(st, layers, selected, extend) ==
  IF layers = <<>> THEN st
  ELSE SelectEach([selection |-> SelectByExtendingSelection(st.selection, Head(layers),
                                                             selected, extend),
                   calls |-> Append(st.calls, <<"select_byExtendingSelection", Head(layers),
                                                selected, extend>>)],
                  Tail(layers), selected, extend)

\* DeselectAll deselecting nothing
DeselectNone(st) == st

\* the first loop of selectLayers: deselect all layers
DeselectAll(st) == SelectEach(st, GetSelectedLayers(st.selection), FALSE, FALSE)

SelectLayers(sel, layers) ==
  SelectEach(DeselectAll([selection |-> sel, calls |-> <<>>]), layers, TRUE, TRUE)

GetSelectedLayersCall ==
  /\ op' = [name |-> "getSelectedLayers"]
  /\ result' = Returned(GetSelectedLayers(selection))
  /\ calls' = <<>>
  /\ UNCHANGED <<doc, selection, symbols, libraries, imported>>

SelectLayersCall ==
  /\ \E layers \in Selections :
       LET r == SelectLayers(selection, layers)
       IN  /\ op' = [name |-> "selectLayers", layers |-> layers]
           /\ selection' = r.selection
           /\ calls' = r.calls
  /\ result' = ReturnedUndefined
  /\ UNCHANGED <<doc, symbols, libraries, imported>>

\* a page holding MaxLayers text layers
SelectDoc ==
  [l \in 1..(MaxLayers + 1) |->
     [name |-> Some(<<"a">>), className |-> IF l = 1 THEN PAGE ELSE TEXT,
      parent |-> IF l = 1 THEN 0 ELSE 1, x |-> 0, y |-> 0, width |-> 1, height |-> 1]]

InitSelect ==
  /\ doc = SelectDoc
  /\ selection \in Selections
  /\ symbols = <<>>
  /\ libraries = <<>>
  /\ imported = {}
  /\ op = NoOp
  /\ result = ReturnedUndefined
  /\ calls = <<>>

NextSelect == GetSelectedLayersCall \/ SelectLayersCall

SpecSelect == InitSelect /\ [][NextSelect]_vars

(***************************************************************************)
(* Properties.                                                             *)
(***************************************************************************)
IsFind == op.name \in {"findLayersInLayer", "findLayersInLayers"}

\* the layers the call filters: those of its root, or of each of its roots
FindCandidates ==
  LET of(root) == IF op.args.subLayersOnly THEN Range(SubLayers(root)) ELSE Range(Children(root))
  IN  IF op.name = "findLayersInLayer" THEN of(op.args.root)
      ELSE UNION {of(op.args.root[i]) : i \in 1..Len(op.args.root)}

\* C1: when a non-empty exclusion set is passed to findLayersInLayer or
\* findLayersInLayers, no layer of that set is in the result, whatever the name,
\* exactMatch, kind and scope are.
C1_ExcludedNeverReturned ==
  (IsFind /\ op.args.layersToExclude # None /\ Val(op.args.layersToExclude) # {}
     /\ result.status = "returned")
    => \A l \in Val(op.args.layersToExclude) : l \notin Range(result.value)

\* C9: with the kind omitted (ANY), findLayersInLayer and findLayersInLayers return
\* only named layers that are a group, shape group, artboard, text or primitive
\* shape: never a bitmap, symbol instance, symbol master or page.
C9_UnqualifiedKinds ==
  (IsFind /\ op.args.type = ANY /\ result.status = "returned")
    => \A l \in Range(result.value) :
         /\ doc[l].name # None
         /\ doc[l].className \in {GROUP, SHAPE, ARTBOARD, TEXT} \cup PrimitiveShapes
         /\ doc[l].className \notin {BITMAP, SYMBOL, SYMBOL_MASTER, PAGE}

\* an unqualified search that returned layers and left out a named bitmap, symbol
\* or page layer it went over
C9_Witness ==
  /\ IsFind /\ op.args.type = ANY /\ result.status = "returned"
  /\ result.value # <<>>
  /\ \E l \in FindCandidates :
       /\ doc[l].name # None
       /\ doc[l].className \in {BITMAP, SYMBOL, SYMBOL_MASTER, PAGE}
       /\ l \notin Range(result.value)

IsFindSymbol == op.name \in {"findSymbolMasterWithName", "findSymbolMasterWithId"}

HoldsMatch(i) == FirstMatch(libraries[i].references, op.by, op.criterion) # 0

\* C2: with no matching local master, an invalid library is skipped: when an invalid
\* library precedes a valid library holding a matching reference, the resolver
\* imports and returns the master of a matching reference of a valid library.
C2_InvalidLibrarySkipped ==
  (IsFindSymbol /\ FirstMatch(symbols, op.by, op.criterion) = 0
     /\ \E i, j \in 1..Len(libraries) :
          i < j /\ ~libraries[i].valid /\ libraries[j].valid /\ HoldsMatch(j))
    => /\ result.value.from = "library"
       /\ libraries[result.value.library].valid
       /\ HoldsMatch(result.value.library)
       /\ <<result.value.library, result.value.reference>> \in imported

\* C3: once a library has yielded a matching reference and it is imported, no later
\* library is queried or imported from, and the master returned is the one imported
\* from that first matching library.
C3_StopsAtFirstMatch ==
  IsFindSymbol
    => \A n \in 1..Len(calls) :
         calls[n][1] = "import"
           => /\ n = Len(calls)
              /\ result.value = ImportedMaster(calls[n][2], calls[n][3])

\* C4: whenever the document's own symbol masters hold a match for the criterion,
\* the resolver returns that local master, queries no library and imports nothing,
\* whatever the libraries hold.
C4_LocalMasterFirst ==
  (IsFindSymbol /\ FirstMatch(symbols, op.by, op.criterion) # 0)
    => /\ result.value = LocalMaster(FirstMatch(symbols, op.by, op.criterion))
       /\ Matches(symbols[result.value.index], op.by, op.criterion)
       /\ calls = <<>>
       /\ imported = {}

\* a local match returned while a valid and an invalid library hold a match too
C4_Witness ==
  /\ IsFindSymbol /\ FirstMatch(symbols, op.by, op.criterion) # 0
  /\ result.value.from = "document"
  /\ \E i, j \in 1..Len(libraries) :
       /\ libraries[i].valid /\ HoldsMatch(i)
       /\ ~libraries[j].valid /\ HoldsMatch(j)

IsCreateGrid == op.name = "createGrid"

ValidCounts(opt) ==
  /\ opt.rowsCount # None /\ Val(opt.rowsCount) >= 1
  /\ opt.columnsCount # None /\ Val(opt.columnsCount) >= 1

ValidMargins(opt) ==
  /\ opt.rowsMargin # None /\ Val(opt.rowsMargin) >= 0
  /\ opt.columnsMargin # None /\ Val(opt.columnsMargin) >= 0

\* C5: createGrid with a row or column count that is 0, negative or missing, or a
\* margin that is undefined, shows a message, returns nothing and removes, copies
\* and inserts no layer, the document being left as it was; a margin of exactly 0
\* with valid counts is accepted and the grid is produced.
C5_InvalidSpecRejected ==
  [][(op'.name = "createGrid" /\ op.name = "none")
       => /\ ~(ValidCounts(op'.opt) /\ op'.opt.rowsMargin # None /\ op'.opt.columnsMargin # None)
               => /\ result'.status = "undefined"
                  /\ doc' = doc
                  /\ Len(calls') = 1 /\ calls'[1][1] = "showMessage"
          /\ (ValidCounts(op'.opt) /\ ValidMargins(op'.opt)
                /\ (op'.opt.rowsMargin = Some(0) \/ op'.opt.columnsMargin = Some(0)))
               => /\ result'.status = "returned"
                  /\ Len(result'.value) = Val(op'.opt.rowsCount) * Val(op'.opt.columnsCount)
                  /\ \A n \in 1..Len(calls') : calls'[n][1] # "showMessage"]_vars

\* a call rejected for its undefined row margin alone
C5_Witness ==
  /\ IsCreateGrid /\ ValidCounts(op.opt)
  /\ op.opt.rowsMargin = None /\ op.opt.columnsMargin = Some(0)
  /\ result.status = "undefined"
  /\ calls = <<<<"showMessage", "Grid row margin is invalid.">>>>

\* C6: for positive counts R and C and margins >= 0, createGrid returns exactly R*C
\* layers in row-major order, the one at index i*C + j placed at
\* x = anchorX + j*(anchorWidth + columnsMargin), y = anchorY + i*(anchorHeight + rowsMargin),
\* the anchor's position being the one it had before the call.
C6_RowMajorGrid ==
  (IsCreateGrid /\ ValidCounts(op.opt) /\ ValidMargins(op.opt))
    => LET R == Val(op.opt.rowsCount)
           C == Val(op.opt.columnsCount)
           a == Anchor(doc, op.selectedLayers)
       IN  /\ result.status = "returned"
           /\ Len(result.value) = R * C
           /\ \A i \in 0..(R - 1), j \in 0..(C - 1) :
                LET copy == result.value[i * C + j + 1]
                IN  /\ doc[copy].x = doc[a].x + j * (doc[a].width + Val(op.opt.columnsMargin))
                    /\ doc[copy].y = doc[a].y + i * (doc[a].height + Val(op.opt.rowsMargin))

\* a grid of 2 rows and 2 columns with different margins, of an anchor that is not square
C6_Witness ==
  /\ IsCreateGrid /\ result.status = "returned" /\ Len(result.value) = 4
  /\ op.opt.rowsCount = Some(2) /\ op.opt.rowsMargin = Some(1) /\ op.opt.columnsMargin = Some(0)
  /\ LET a == Anchor(doc, op.selectedLayers)
     IN  doc[a].width # doc[a].height /\ doc[result.value[4]].x # doc[result.value[4]].y

\* C7: in a successful createGrid call every originally selected layer, not only the
\* anchor, is removed from its parent before the first copy is inserted; on return
\* the tree holds none of them and exactly rowsCount*columnsCount new layers have
\* been added to the parent captured from the anchor, whatever the selection's size.
C7_SelectionRemovedFirst ==
  [][(op'.name = "createGrid" /\ op.name = "none" /\ result'.status = "returned")
       => LET sel == op'.selectedLayers
              layerParent == LayerParent(doc, Anchor(doc, sel))
              removals == {n \in 1..Len(calls') : calls'[n][1] = "removeFromParent"}
              insertions == {n \in 1..Len(calls') : calls'[n][1] = "addLayers"}
              cells == Val(op'.opt.rowsCount) * Val(op'.opt.columnsCount)
          IN  /\ \A l \in Range(sel) : \E n \in removals : calls'[n][2] = l
              /\ \A n \in removals, m \in insertions : n < m
              /\ \A l \in Range(sel) : doc'[l].parent = 0 /\ ~InTree(doc', l)
              /\ Cardinality(insertions) = cells
              /\ \A n \in insertions : calls'[n][2] = layerParent
              /\ Cardinality({l \in (Len(doc) + 1)..Len(doc') : doc'[l].parent = layerParent})
                   = cells
              /\ Len(result'.value) = cells]_vars

\* a grid of four copies made from a selection of two layers
C7_Witness ==
  /\ IsCreateGrid /\ result.status = "returned"
  /\ Len(op.selectedLayers) = 2 /\ Len(result.value) = 4
  /\ \A l \in Range(op.selectedLayers) : doc[l].parent = 0

\* the selected layers that are both leftmost and topmost
TopLeftMost(sel) ==
  {l \in Range(sel) : \A m \in Range(sel) : doc[l].x <= doc[m].x /\ doc[l].y <= doc[m].y}

\* C10: whenever some selected layer has both the smallest x and the smallest y of
\* the selection, the anchor scan ends on a layer at that position for every order
\* of the selection, so that the first copy of the grid is placed at (minX, minY).
C10_AnchorAtTopLeft ==
  (IsCreateGrid /\ result.status = "returned" /\ TopLeftMost(op.selectedLayers) # {})
    => \A l \in TopLeftMost(op.selectedLayers) :
         /\ doc[result.value[1]].x = doc[l].x
         /\ doc[result.value[1]].y = doc[l].y
         /\ doc[Anchor(doc, op.selectedLayers)].x = doc[l].x
         /\ doc[Anchor(doc, op.selectedLayers)].y = doc[l].y

\* the top-left layer comes second in the selection, after a layer placed elsewhere
C10_Witness ==
  /\ IsCreateGrid /\ result.status = "returned" /\ Len(op.selectedLayers) = 2
  /\ op.selectedLayers[2] \in TopLeftMost(op.selectedLayers)
  /\ op.selectedLayers[1] \notin TopLeftMost(op.selectedLayers)
  /\ doc[result.value[1]].x = doc[op.selectedLayers[2]].x
  /\ doc[result.value[1]].y = doc[op.selectedLayers[2]].y

\* C8: selectLayers is not additive and round-trips with getSelectedLayers: after
\* selectLayers(L), L being distinct layers, the native selection is exactly L in
\* L's order whatever was selected before; and selectLayers of the reverse of what
\* getSelectedLayers has just returned leaves the native selection as it was.
C8_SelectionReplaced ==
  /\ []((op.name = "selectLayers" /\ Distinct(op.layers)) => selection = op.layers)
  /\ [][(op.name = "getSelectedLayers" /\ op'.name = "selectLayers"
           /\ op'.layers = Reverse(result.value))
          => selection' = selection]_vars

\* two layers selected in place of a selection that held a third one
C8_Witness ==
  /\ op.name = "selectLayers" /\ Len(op.layers) = 2 /\ Distinct(op.layers)
  /\ selection = op.layers
  /\ \E n \in 1..Len(calls) :
       /\ calls[n][3] = FALSE
       /\ calls[n][2] \notin Range(op.layers)

====
